---- MODULE Spec2Model ----
(***************************************************************************)
(* grblas: the calling convention  M[mask, accum, REPLACE] = delayed  of   *)
(* the README, and the two tutorial notebooks built on it (single-source   *)
(* shortest path with MIN_PLUS, parent breadth-first search with           *)
(* MIN_FIRST).  A sparse Vector is a function whose domain is the set of   *)
(* stored indices; a sparse Matrix is a function on stored <<row, col>>    *)
(* pairs.  An index outside the domain has no stored value, which is       *)
(* different from a stored 0.                                              *)
(***************************************************************************)
EXTENDS Integers, Sequences, FiniteSets, TLC

VARIABLES out, pending, call, phase,
          m, v, w, w_old, pc,
          A, s, parents, wavefront, bpc,
          iv, isr, idiag, ires, ipc,
          Mout, fresh, delayed, flagobjs, count

opVars   == <<out, pending, call, phase>>
ssspVars == <<m, v, w, w_old, pc>>
bfsVars  == <<A, s, parents, wavefront, bpc>>
identVars == <<iv, isr, idiag, ires, ipc>>
delayedVars == <<Mout, fresh, delayed, flagobjs, count>>
vars == <<out, pending, call, phase, m, v, w, w_old, pc,
          A, s, parents, wavefront, bpc, iv, isr, idiag, ires, ipc,
          Mout, fresh, delayed, flagobjs, count>>

\* what the steps of one program leave alone: the other programs
restOfOp    == <<ssspVars, bfsVars, identVars, delayedVars>>
restOfSssp  == <<opVars, bfsVars, identVars, delayedVars>>
restOfBfs   == <<opVars, ssspVars, identVars, delayedVars>>
restOfIdent == <<opVars, ssspVars, bfsVars, delayedVars>>
restOfDelayed == <<opVars, ssspVars, bfsVars, identVars>>

(***************************************************************************)
(* Bounds of the model.                                                    *)
(***************************************************************************)
\* size of the vectors of the generic operation calls
OpSize == 2
\* longest index list given to a bulk build in the generic operation calls
MaxBuild == 2
\* most entries of the vector given to v.rebuild_from_values in the notebook
MaxStored == 2
\* most edges removed from the notebook's graph for the BFS inputs
MaxDropped == 1
\* size of the vectors of the identity-matrix law
IdSize == 2
\* delayed objects built in one run of the calling-convention program
MaxOps == 3

(***************************************************************************)
(* Values and operators.                                                   *)
(***************************************************************************)
\* "+infinity", the empty value of the min monoid
Inf == 999

\* stored values of the generic operation calls
Vals == {1, 2}

Range(n) == 0 .. (n - 1)

Vectors(n, vals) == UNION {[D -> vals] : D \in SUBSET Range(n)}

EmptyVector == [p \in {} |-> 0]

PlusOp(a, b) == IF a = Inf \/ b = Inf THEN Inf ELSE a + b

\* faulty variant: the comparison the wrong way round
MaxOp(a, b) == IF a >= b THEN a ELSE b

MinOp(a, b) == IF a <= b THEN a ELSE b

FirstOp(a, b) == a

BinaryOp(op, a, b) ==
    CASE op = "MIN"   -> MinOp(a, b)
      [] op = "PLUS"  -> PlusOp(a, b)
      [] op = "FIRST" -> FirstOp(a, b)

\* the identity of a monoid
MonoidIdentity(op) ==
    CASE op = "MIN"  -> Inf
      [] op = "PLUS" -> 0

MIN_PLUS  == [add |-> "MIN", mul |-> "PLUS"]
MIN_FIRST == [add |-> "MIN", mul |-> "FIRST"]

Semirings == {MIN_PLUS, MIN_FIRST}

RECURSIVE Reduce(_, _, _)
Reduce(op, f, I) ==
    LET i == CHOOSE x \in I : TRUE
    IN  IF I = {i} THEN f[i]
        ELSE BinaryOp(op, f[i], Reduce(op, f, I \ {i}))

(***************************************************************************)
(* The computations a delayed object stands for.                           *)
(***************************************************************************)
\* w = v . B under semiring S: column j gets the sum of the products over
\* the rows stored both in v and in column j; no such row, no entry
vxm(x, B, S, ncols) ==
    LET rows(j) == {i \in DOMAIN x : <<i, j>> \in DOMAIN B}
        prod(j) == [i \in rows(j) |-> BinaryOp(S.mul, x[i], B[<<i, j>>])]
    IN  [j \in {c \in Range(ncols) : rows(c) # {}} |->
            Reduce(S.add, prod(j), rows(j))]

ewise_mult(x, y, op) ==
    [i \in DOMAIN x \cap DOMAIN y |-> BinaryOp(op, x[i], y[i])]

\* apply(UnaryOp.IDENTITY)
apply_identity(x) == [i \in DOMAIN x |-> x[i]]

new_from_existing(x) == x

(***************************************************************************)
(* The write of a computed result T into the output C:                     *)
(*   GrB_xxx(C, mask, accum, ..., desc).                                   *)
(***************************************************************************)
NoMask == <<>>
HasMask(mask) == Len(mask) = 1

\* faulty variant: without an accumulator an entry of C with nothing
\* computed for it is kept
AccumulateKeep(C, T, accum) ==
    [p \in DOMAIN C \cup DOMAIN T |->
        IF p \in DOMAIN T
        THEN (IF accum # "NONE" /\ p \in DOMAIN C
              THEN BinaryOp(accum, C[p], T[p]) ELSE T[p])
        ELSE C[p]]

\* faulty variant: the accumulator is ignored
AccumulateOverwrite(C, T, accum) == T

\* Z: T itself without an accumulator, else C and T merged by the accumulator
Accumulate(C, T, accum) ==
    IF accum = "NONE" THEN T
    ELSE [p \in DOMAIN C \cup DOMAIN T |->
            IF p \in DOMAIN C /\ p \in DOMAIN T
            THEN BinaryOp(accum, C[p], T[p])
            ELSE IF p \in DOMAIN C THEN C[p] ELSE T[p]]

\* whether position p is written: no mask, or the mask (its stored
\* positions in structural mode, its stored non-zero values otherwise),
\* complemented when the descriptor says so
MaskedIn(mask, desc, p) ==
    IF ~HasMask(mask) THEN TRUE
    ELSE LET M == mask[1]
             set == p \in DOMAIN M /\ (desc.structure \/ M[p] # 0)
         IN  IF desc.comp THEN ~set ELSE set

\* C<mask> = Z: a written position takes Z's entry or loses its own; an
\* unwritten position keeps its entry, or loses it under replace
GrB_write(C, mask, accum, T, desc, n) ==
    LET Z == Accumulate(C, T, accum)
        keep == {p \in Range(n) :
                    IF MaskedIn(mask, desc, p) THEN p \in DOMAIN Z
                    ELSE ~desc.replace /\ p \in DOMAIN C}
    IN  [p \in keep |-> IF MaskedIn(mask, desc, p) THEN Z[p] ELSE C[p]]

\* faulty variants: a descriptor bit is lost
DescriptorDropStructure(key) ==
    [comp |-> key.comp, replace |-> key.replace, structure |-> FALSE]

DescriptorDropReplace(key) ==
    [comp |-> key.comp, replace |-> FALSE, structure |-> key.structure]

DescriptorDropComplement(key) ==
    [comp |-> FALSE, replace |-> key.replace, structure |-> key.structure]

\* the descriptor bits of the key  M[~mask, accum, REPLACE]
Descriptor(key) ==
    [comp |-> key.comp, replace |-> key.replace, structure |-> key.structure]

\* M[key] = delayed, with T the value of the delayed object
SetItemResult(C, key, T, n) ==
    GrB_write(C, key.mask, key.accum, T, Descriptor(key), n)

\* faulty variant: the mask of the key is read by value
KeyByValue(mask, comp, accum, replace) ==
    [mask |-> mask, comp |-> comp, structure |-> FALSE,
     accum |-> accum, replace |-> replace]

\* the key of  M[:] = ...  and of  M[accum] = ...
Key(mask, comp, accum, replace) ==
    [mask |-> mask, comp |-> comp, structure |-> TRUE,
     accum |-> accum, replace |-> replace]

AllKey == Key(NoMask, FALSE, "NONE", FALSE)
AccumKey(accum) == Key(NoMask, FALSE, accum, FALSE)

(***************************************************************************)
(* Generic operation calls on one output vector of size OpSize:            *)
(* the right-hand side builds a delayed object, the assignment executes it.*)
(***************************************************************************)
NoPending == [op |-> "none", x |-> EmptyVector, size |-> 0, typed |-> TRUE]

NoCall == [kind |-> "none", pre |-> EmptyVector, key |-> AllKey,
           T |-> EmptyVector, err |-> "none"]

SetMax(S) == CHOOSE x \in S : \A y \in S : y <= x

SetMin(S) == CHOOSE x \in S : \A y \in S : x <= y

\* the largest value the output of the generic calls may hold
ValCap == SetMax(Vals)

ConstantVectors(n, vals) == {[p \in Range(n) |-> c] : c \in vals}

\* operands of a delayed object: any vector of the output's size with a
\* matching operator, and constant vectors of a wrong size or a wrong type
Operands ==
    {[op |-> "apply", x |-> x, size |-> OpSize, typed |-> TRUE] :
        x \in Vectors(OpSize, Vals)}
    \cup {[op |-> "apply", x |-> x, size |-> OpSize + 1, typed |-> TRUE] :
        x \in ConstantVectors(OpSize + 1, Vals)}
    \cup {[op |-> "apply", x |-> x, size |-> OpSize, typed |-> FALSE] :
        x \in ConstantVectors(OpSize, Vals)}

Masks == {NoMask} \cup {<<M>> : M \in Vectors(OpSize, {0, 1})}

Keys ==
    {[mask |-> NoMask, comp |-> FALSE, structure |-> TRUE,
      accum |-> a, replace |-> r] :
        a \in {"NONE", "MIN", "PLUS"}, r \in BOOLEAN}
    \cup {[mask |-> k, comp |-> c, structure |-> st, accum |-> a, replace |-> r] :
        k \in Masks \ {NoMask}, c \in BOOLEAN, st \in BOOLEAN,
        a \in {"NONE", "MIN", "PLUS"}, r \in BOOLEAN}

\* the value of a delayed object
Eval(d) == apply_identity(d.x)

\* the preconditions of a call, checked before anything is written
Validate(C, d, n) ==
    IF ~d.typed THEN "SemiringTypeError"
    ELSE IF d.size # n THEN "DimensionMismatchError"
    ELSE "none"

\* A.op(...): a delayed object, no computation
Delay ==
    /\ phase = "idle"
    /\ \E d \in Operands : pending' = d
    /\ phase' = "built"
    /\ UNCHANGED <<out, call>>
    /\ UNCHANGED restOfOp

\* M[key] = delayed
SetItem ==
    /\ phase = "built"
    /\ \E key \in Keys :
        LET err == Validate(out, pending, OpSize)
            T == IF err = "none" THEN Eval(pending) ELSE EmptyVector
            R == IF err = "none" THEN SetItemResult(out, key, T, OpSize) ELSE out
        IN  /\ \A p \in DOMAIN R : R[p] <= ValCap
            /\ out' = R
            /\ call' = [kind |-> "setitem", pre |-> out, key |-> key,
                        T |-> T, err |-> err]
    /\ pending' = NoPending
    /\ phase' = "done"
    /\ UNCHANGED restOfOp

IndexLists == UNION {[1 .. k -> 0 .. OpSize] : k \in 0 .. MaxBuild}

HasDuplicate(idx) ==
    \E i, j \in DOMAIN idx : i # j /\ idx[i] = idx[j]

\* faulty variant: the entries are stored one by one up to the first bad one
BuildPartial(C, idx, vals, n) ==
    LET bad == {k \in DOMAIN idx :
                    idx[k] >= n \/ \E j \in 1 .. (k - 1) : idx[j] = idx[k]}
        stop == IF bad = {} THEN Len(idx) + 1
                ELSE CHOOSE k \in bad : \A j \in bad : k <= j
        done == {idx[k] : k \in 1 .. (stop - 1)}
        val(i) == vals[CHOOSE k \in 1 .. (stop - 1) : idx[k] = i]
    IN  [err |-> IF bad = {} THEN "none"
                 ELSE IF idx[stop] >= n THEN "IndexOutOfBoundsError"
                 ELSE "DuplicateIndexError",
         out |-> [i \in done |-> val(i)]]

\* build(indices, values) without a combiner: the whole entry set replaces
\* the content, or the call fails and nothing is written
Build(C, idx, vals, n) ==
    IF \E k \in DOMAIN idx : idx[k] >= n
    THEN [err |-> "IndexOutOfBoundsError", out |-> C]
    ELSE IF HasDuplicate(idx)
    THEN [err |-> "DuplicateIndexError", out |-> C]
    ELSE [err |-> "none",
          out |-> [i \in {idx[k] : k \in DOMAIN idx} |->
                      vals[CHOOSE k \in DOMAIN idx : idx[k] = i]]]

\* v.rebuild_from_values(indices, values)
rebuild_from_values ==
    /\ phase = "idle"
    /\ \E idx \in IndexLists :
       \E vals \in [DOMAIN idx -> Vals] :
        LET r == Build(out, idx, vals, OpSize)
        IN  /\ out' = r.out
            /\ call' = [kind |-> "build", pre |-> out, key |-> AllKey,
                        T |-> EmptyVector, err |-> r.err]
    /\ phase' = "done"
    /\ UNCHANGED pending
    /\ UNCHANGED restOfOp

SetElementResult(C, i, val, n) ==
    IF i >= n THEN [err |-> "IndexOutOfBoundsError", out |-> C]
    ELSE [err |-> "none",
          out |-> [p \in DOMAIN C \cup {i} |-> IF p = i THEN val ELSE C[p]]]

\* v.element[i] = val
SetElement ==
    /\ phase = "idle"
    /\ \E i \in 0 .. OpSize, val \in Vals :
        LET r == SetElementResult(out, i, val, OpSize)
        IN  /\ out' = r.out
            /\ call' = [kind |-> "element", pre |-> out, key |-> AllKey,
                        T |-> EmptyVector, err |-> r.err]
    /\ phase' = "done"
    /\ UNCHANGED pending
    /\ UNCHANGED restOfOp

\* v.clear()
Clear ==
    /\ phase = "idle"
    /\ out' = EmptyVector
    /\ call' = [kind |-> "clear", pre |-> out, key |-> AllKey,
                T |-> EmptyVector, err |-> "none"]
    /\ phase' = "done"
    /\ UNCHANGED pending
    /\ UNCHANGED restOfOp

\* the statement is over: its temporaries are gone
EndStatement ==
    /\ phase = "done"
    /\ call' = NoCall
    /\ phase' = "idle"
    /\ UNCHANGED <<out, pending>>
    /\ UNCHANGED restOfOp

OpInit ==
    /\ out = EmptyVector
    /\ pending = NoPending
    /\ call = NoCall
    /\ phase = "idle"

OpNext ==
    \/ Delay
    \/ SetItem
    \/ rebuild_from_values
    \/ SetElement
    \/ Clear
    \/ EndStatement

(***************************************************************************)
(* Notebook "Intro to GraphBLAS + SSSP example", statement by statement.   *)
(***************************************************************************)
data == << <<3, 0, 3, 5, 6, 0, 6, 1, 6, 2, 4, 1>>,
           <<0, 1, 2, 2, 2, 3, 3, 4, 4, 5, 5, 6>>,
           <<3, 2, 3, 1, 5, 3, 7, 8, 3, 1, 7, 4>> >>

\* Matrix.new_from_values(rows, cols, values)
new_from_values(rows, cols, values) ==
    [e \in {<<rows[k], cols[k]>> : k \in DOMAIN rows} |->
        values[CHOOSE k \in DOMAIN rows : <<rows[k], cols[k]>> = e]]

\* the shape new_from_values gives the matrix: one more than the largest index
nrows(M) == 1 + SetMax({e[1] : e \in DOMAIN M} \cup {e[2] : e \in DOMAIN M})

\* faulty variant: the last diagonal entry is missing
m_ident_short == new_from_values([k \in 1 .. 6 |-> k - 1],
                                 [k \in 1 .. 6 |-> k - 1], [k \in 1 .. 6 |-> 0])

\* Matrix.new_from_values(range(7), range(7), [0]*7)
m_ident == new_from_values([k \in 1 .. 7 |-> k - 1],
                           [k \in 1 .. 7 |-> k - 1], [k \in 1 .. 7 |-> 0])

\* m = Matrix.new_from_values(rows, cols, weights)
NotebookM == new_from_values(data[1], data[2], data[3])

\* the values the notebook stores in v
NotebookVals == {0, 14, 77}

\* the vectors given to v.rebuild_from_values (v has m.nrows positions):
\* the notebook's [0, 1, 4], [14, 0, 77], and every vector of at most
\* MaxStored entries
NotebookVectors ==
    {Build(EmptyVector, <<0, 1, 4>>, <<14, 0, 77>>, nrows(NotebookM)).out}
    \cup {x \in Vectors(nrows(NotebookM), NotebookVals) :
            Cardinality(DOMAIN x) <= MaxStored}

\* M.element[i, j] = val
MatrixSetElement(M, i, j, val) ==
    [e \in DOMAIN M \cup {<<i, j>>} |-> IF e = <<i, j>> THEN val ELSE M[e]]

VectorSetElement(x, i, val) ==
    [p \in DOMAIN x \cup {i} |-> IF p = i THEN val ELSE x[p]]

\* lines 137 and 168: w = Vector.new_from_existing(v)
CopyVToW ==
    /\ pc \in {"L137", "L168", "L215"}
    /\ w' = new_from_existing(v)
    /\ pc' = CASE pc = "L137" -> "L138"
               [] pc = "L168" -> "L169"
               [] pc = "L215" -> "L217"
    /\ UNCHANGED <<m, v, w_old>>
    /\ UNCHANGED restOfSssp

\* line 138: w[:] = v.vxm(m, Semiring.MIN_PLUS)
StepNoAccum ==
    /\ pc = "L138"
    /\ w' = SetItemResult(w, AllKey, vxm(v, m, MIN_PLUS, nrows(m)), nrows(m))
    /\ pc' = "L168"
    /\ UNCHANGED <<m, v, w_old>>
    /\ UNCHANGED restOfSssp

\* line 169: w[BinaryOp.MIN] = v.vxm(m, Semiring.MIN_PLUS)
StepAccum ==
    /\ pc = "L169"
    /\ w' = SetItemResult(w, AccumKey("MIN"),
                          vxm(v, m, MIN_PLUS, nrows(m)), nrows(m))
    /\ pc' = "L187"
    /\ UNCHANGED <<m, v, w_old>>
    /\ UNCHANGED restOfSssp

\* faulty variant: the step is written without the accumulator
StepAccumWAll ==
    /\ pc \in {"L187", "L218"}
    /\ w' = SetItemResult(w, AllKey, vxm(w, m, MIN_PLUS, nrows(m)), nrows(m))
    /\ pc' = IF pc = "L187" THEN "L215" ELSE "L219"
    /\ UNCHANGED <<m, v, w_old>>
    /\ UNCHANGED restOfSssp

\* lines 187 and 218: w[BinaryOp.MIN] = w.vxm(m, Semiring.MIN_PLUS)
StepAccumW ==
    /\ pc \in {"L187", "L218"}
    /\ w' = SetItemResult(w, AccumKey("MIN"),
                          vxm(w, m, MIN_PLUS, nrows(m)), nrows(m))
    /\ pc' = IF pc = "L187" THEN "L215" ELSE "L219"
    /\ UNCHANGED <<m, v, w_old>>
    /\ UNCHANGED restOfSssp

\* line 217: w_old = Vector.new_from_existing(w)
CopyWToOld ==
    /\ pc = "L217"
    /\ w_old' = new_from_existing(w)
    /\ pc' = "L218"
    /\ UNCHANGED <<m, v, w>>
    /\ UNCHANGED restOfSssp

\* line 219: if w == w_old: break
TestAccumLoop ==
    /\ pc = "L219"
    /\ pc' = IF w = w_old THEN "L255" ELSE "L217"
    /\ UNCHANGED <<m, v, w, w_old>>
    /\ UNCHANGED restOfSssp

\* line 255: v.rebuild_from_values([1], [0])
RebuildSeed ==
    /\ pc = "L255"
    /\ v' = Build(v, <<1>>, <<0>>, nrows(m)).out
    /\ pc' = "L265"
    /\ UNCHANGED <<m, w, w_old>>
    /\ UNCHANGED restOfSssp

\* lines 265 and 278: v[:] = v.vxm(m_ident, Semiring.MIN_PLUS)
StepIdent ==
    /\ pc \in {"L265", "L278"}
    /\ v' = SetItemResult(v, AllKey,
                          vxm(v, m_ident, MIN_PLUS, nrows(m_ident)), nrows(m))
    /\ pc' = IF pc = "L265" THEN "L277" ELSE "L295"
    /\ UNCHANGED <<m, w, w_old>>
    /\ UNCHANGED restOfSssp

\* line 277: v.rebuild_from_values(indices, values), for any entry set
RebuildAny ==
    /\ pc = "L277"
    /\ \E x \in NotebookVectors : v' = x
    /\ pc' = "L278"
    /\ UNCHANGED <<m, w, w_old>>
    /\ UNCHANGED restOfSssp

\* lines 295-296: for i in range(m.nrows): m.element[i, i] = 0
SetDiagonal ==
    /\ pc = "L295"
    /\ LET todo == {i \in Range(nrows(m)) : <<i, i>> \notin DOMAIN m}
       IN  IF todo = {}
           THEN /\ pc' = "L307"
                /\ m' = m
           ELSE LET i == CHOOSE x \in todo : \A y \in todo : x <= y
                IN  /\ m' = MatrixSetElement(m, i, i, 0)
                    /\ pc' = pc
    /\ UNCHANGED <<v, w, w_old>>
    /\ UNCHANGED restOfSssp

\* line 307: v.clear()
ClearV ==
    /\ pc = "L307"
    /\ v' = EmptyVector
    /\ pc' = "L308"
    /\ UNCHANGED <<m, w, w_old>>
    /\ UNCHANGED restOfSssp

\* line 308: v.element[1] = 0
SeedV ==
    /\ pc = "L308"
    /\ v' = VectorSetElement(v, 1, 0)
    /\ pc' = "L319"
    /\ UNCHANGED <<m, w, w_old>>
    /\ UNCHANGED restOfSssp

\* faulty variant: the step multiplies under MIN_FIRST
StepVFirst ==
    /\ pc \in {"L319", "L332"}
    /\ v' = SetItemResult(v, AllKey, vxm(v, m, MIN_FIRST, nrows(m)), nrows(m))
    /\ pc' = IF pc = "L319" THEN "L331" ELSE "L333"
    /\ UNCHANGED <<m, w, w_old>>
    /\ UNCHANGED restOfSssp

\* lines 319 and 332: v[:] = v.vxm(m, Semiring.MIN_PLUS)
StepV ==
    /\ pc \in {"L319", "L332"}
    /\ v' = SetItemResult(v, AllKey, vxm(v, m, MIN_PLUS, nrows(m)), nrows(m))
    /\ pc' = IF pc = "L319" THEN "L331" ELSE "L333"
    /\ UNCHANGED <<m, w, w_old>>
    /\ UNCHANGED restOfSssp

\* line 331: w = Vector.new_from_existing(v)
CopyVToWLoop ==
    /\ pc = "L331"
    /\ w' = new_from_existing(v)
    /\ pc' = "L332"
    /\ UNCHANGED <<m, v, w_old>>
    /\ UNCHANGED restOfSssp

\* line 333: if v == w: break
TestLoop ==
    /\ pc = "L333"
    /\ pc' = IF v = w THEN "done" ELSE "L331"
    /\ UNCHANGED <<m, v, w, w_old>>
    /\ UNCHANGED restOfSssp

SsspInit ==
    /\ m = NotebookM
    /\ v = VectorSetElement(EmptyVector, 1, 0)
    /\ w = EmptyVector
    /\ w_old = EmptyVector
    /\ pc = "L137"

SsspNext ==
    \/ CopyVToW
    \/ StepNoAccum
    \/ StepAccum
    \/ StepAccumW
    \/ CopyWToOld
    \/ TestAccumLoop
    \/ RebuildSeed
    \/ StepIdent
    \/ RebuildAny
    \/ SetDiagonal
    \/ ClearV
    \/ SeedV
    \/ StepV
    \/ CopyVToWLoop
    \/ TestLoop

(***************************************************************************)
(* Notebook "Example B.3 Parent Breadth-first Search".                     *)
(***************************************************************************)
edges == << <<3, 0, 3, 5, 6, 0, 6, 1, 6, 2, 4, 1>>,
            <<0, 1, 2, 2, 2, 3, 3, 4, 4, 5, 5, 6>> >>

\* Matrix.new_from_values(edges[0], edges[1], [True for _ in edges[0]])
NotebookA == new_from_values(edges[1], edges[2], [k \in DOMAIN edges[1] |-> 1])

\* N = A.nrows
N == nrows(NotebookA)

\* the adjacency matrices the search is run on: the notebook's, and the
\* notebook's with a few edges removed
Graphs ==
    {[e \in DOMAIN NotebookA \ D |-> 1] :
        D \in {X \in SUBSET DOMAIN NotebookA : Cardinality(X) <= MaxDropped}}

\* index_ramp.rebuild_from_values(range(N), range(N))
index_ramp == Build(EmptyVector, [k \in 1 .. N |-> k - 1],
                    [k \in 1 .. N |-> k - 1], N).out

\* line 158: while wavefront.nvals > 0
TestWavefront ==
    /\ bpc = "L158"
    /\ bpc' = IF Cardinality(DOMAIN wavefront) > 0 THEN "L160" ELSE "done"
    /\ UNCHANGED <<A, s, parents, wavefront>>
    /\ UNCHANGED restOfBfs

\* line 160: wavefront[:] = index_ramp.ewise_mult(wavefront, BinaryOp.FIRST)
WavefrontToIndex ==
    /\ bpc = "L160"
    /\ wavefront' = SetItemResult(wavefront, AllKey,
                                  ewise_mult(index_ramp, wavefront, "FIRST"), N)
    /\ bpc' = "L163"
    /\ UNCHANGED <<A, s, parents>>
    /\ UNCHANGED restOfBfs

\* line 163: wavefront[~parents, REPLACE] = wavefront.vxm(A, Semiring.MIN_FIRST)
WavefrontStep ==
    /\ bpc = "L163"
    /\ wavefront' = SetItemResult(wavefront, Key(<<parents>>, TRUE, "NONE", TRUE),
                                  vxm(wavefront, A, MIN_FIRST, N), N)
    /\ bpc' = "L166"
    /\ UNCHANGED <<A, s, parents>>
    /\ UNCHANGED restOfBfs

\* line 166: parents[BinaryOp.PLUS] = wavefront.apply(UnaryOp.IDENTITY)
MergeParents ==
    /\ bpc = "L166"
    /\ parents' = SetItemResult(parents, AccumKey("PLUS"),
                                apply_identity(wavefront), N)
    /\ bpc' = "L158"
    /\ UNCHANGED <<A, s, wavefront>>
    /\ UNCHANGED restOfBfs

\* lines 143-149, for a graph and a source vertex
BfsInit ==
    /\ A \in Graphs
    /\ s \in Range(N)
    /\ parents = VectorSetElement(EmptyVector, s, s)
    /\ wavefront = VectorSetElement(EmptyVector, s, 1)
    /\ bpc = "L158"

BfsNext ==
    \/ TestWavefront
    \/ WavefrontToIndex
    \/ WavefrontStep
    \/ MergeParents

(***************************************************************************)
(* The identity-matrix law: v.vxm(D, S) for a matrix D that stores one     *)
(* value at every diagonal position and nothing else.                      *)
(***************************************************************************)
IdVals == {0, 2, 5}

\* faulty variant: the last diagonal entry is missing
DiagMatrixShort(n, val) ==
    new_from_values([k \in 1 .. (n - 1) |-> k - 1],
                    [k \in 1 .. (n - 1) |-> k - 1], [k \in 1 .. (n - 1) |-> val])

\* Matrix.new_from_values(range(n), range(n), [val]*n)
DiagMatrix(n, val) ==
    new_from_values([k \in 1 .. n |-> k - 1],
                    [k \in 1 .. n |-> k - 1], [k \in 1 .. n |-> val])

\* the value on the diagonal: the identity of the semiring's add monoid
\* ("add"), or the value 0 the notebook stores ("zero")
DiagValue(S, kind) == IF kind = "add" THEN MonoidIdentity(S.add) ELSE 0

\* r = v.vxm(D, S)
IdentMultiply ==
    /\ ipc = "start"
    /\ ires' = vxm(iv, DiagMatrix(IdSize, DiagValue(isr, idiag)), isr, IdSize)
    /\ ipc' = "done"
    /\ UNCHANGED <<iv, isr, idiag>>
    /\ UNCHANGED restOfIdent

IdentInit ==
    /\ iv \in Vectors(IdSize, IdVals)
    /\ isr \in Semirings
    /\ idiag \in {"add", "zero"}
    /\ ires = EmptyVector
    /\ ipc = "start"

IdentNext == IdentMultiply

(***************************************************************************)
(* Delayed objects of the calling convention (README):                     *)
(*     M[~mask, accum, REPLACE] = x.vxm(B.T, semiring)                     *)
(*     fresh = x.vxm(B, semiring).new()                                    *)
(* B.T and ~mask are objects that hold a flag, x.vxm(...) is an object     *)
(* that holds a pending operation; the assignment and .new() run it.       *)
(***************************************************************************)
NoDelayed == [op |-> "none", x |-> EmptyVector, B |-> EmptyVector, T |-> FALSE]

NoFlags == [view |-> <<>>, cmask |-> <<>>]

\* the operands the program draws from: two vectors and two matrices of
\* size 2, and two masks
DelayedVectors == {(0 :> 1), (0 :> 2) @@ (1 :> 1)}

DelayedMatrices == {(<<0, 1>> :> 1) @@ (<<1, 1>> :> 2),
                    (<<0, 0>> :> 2) @@ (<<1, 0>> :> 1)}

DelayedMasks == {(0 :> 1), (1 :> 0)}

DelayedSize == 2

\* B.T seen as a matrix
Transpose(B) ==
    [e \in {<<p[2], p[1]>> : p \in DOMAIN B} |-> B[<<e[2], e[1]>>]]

\* the GraphBLAS call a pending operation stands for
Execute(d) ==
    vxm(d.x, IF d.T THEN Transpose(d.B) ELSE d.B, MIN_PLUS, DelayedSize)

\* what is left of a delayed object once it is bound to an output
Consume(d) == NoDelayed

\* B.T: an object holding B and the transpose flag
TransposeView ==
    /\ delayed.op = "none"
    /\ flagobjs.view = <<>>
    /\ count.built < MaxOps
    /\ \E B \in DelayedMatrices : flagobjs' = [flagobjs EXCEPT !.view = <<B>>]
    /\ UNCHANGED <<Mout, fresh, delayed, count>>
    /\ UNCHANGED restOfDelayed

\* faulty variant: the operation already runs when the object is created
DelayedVxmEager ==
    /\ delayed.op = "none"
    /\ count.built < MaxOps
    /\ \E x \in DelayedVectors, B \in DelayedMatrices :
        LET d == [op |-> "vxm", x |-> x, B |-> B, T |-> flagobjs.view # <<>>]
        IN  /\ delayed' = d
            /\ fresh' = SetItemResult(EmptyVector, AllKey, Execute(d), DelayedSize)
    /\ flagobjs' = [flagobjs EXCEPT !.view = <<>>]
    /\ count' = [count EXCEPT !.built = @ + 1, !.executed = @ + 1]
    /\ UNCHANGED Mout
    /\ UNCHANGED restOfDelayed

\* x.vxm(B, semiring) and x.vxm(B.T, semiring): a delayed object
DelayedVxm ==
    /\ delayed.op = "none"
    /\ count.built < MaxOps
    /\ \E x \in DelayedVectors :
        IF flagobjs.view # <<>>
        THEN delayed' = [op |-> "vxm", x |-> x, B |-> flagobjs.view[1], T |-> TRUE]
        ELSE \E B \in DelayedMatrices :
                delayed' = [op |-> "vxm", x |-> x, B |-> B, T |-> FALSE]
    /\ flagobjs' = [flagobjs EXCEPT !.view = <<>>]
    /\ count' = [count EXCEPT !.built = @ + 1]
    /\ UNCHANGED <<Mout, fresh>>
    /\ UNCHANGED restOfDelayed

\* ~mask: an object holding the mask and the complement flag
ComplementMask ==
    /\ delayed.op # "none"
    /\ flagobjs.cmask = <<>>
    /\ \E M \in DelayedMasks : flagobjs' = [flagobjs EXCEPT !.cmask = <<M>>]
    /\ UNCHANGED <<Mout, fresh, delayed, count>>
    /\ UNCHANGED restOfDelayed

\* M[key] = delayed: the one GraphBLAS call
BindSetItem ==
    /\ delayed.op # "none"
    /\ \E accum \in {"NONE", "MIN"}, replace \in BOOLEAN :
        LET key == IF flagobjs.cmask # <<>>
                   THEN Key(flagobjs.cmask, TRUE, accum, replace)
                   ELSE Key(NoMask, FALSE, accum, replace)
        IN  Mout' = SetItemResult(Mout, key, Execute(delayed), DelayedSize)
    /\ delayed' = Consume(delayed)
    /\ flagobjs' = NoFlags
    /\ count' = [count EXCEPT !.bound = @ + 1, !.executed = @ + 1]
    /\ UNCHANGED fresh
    /\ UNCHANGED restOfDelayed

\* delayed.new(): the call writes into a new object
New ==
    /\ delayed.op # "none"
    /\ flagobjs.cmask = <<>>
    /\ fresh' = SetItemResult(EmptyVector, AllKey, Execute(delayed), DelayedSize)
    /\ delayed' = Consume(delayed)
    /\ flagobjs' = NoFlags
    /\ count' = [count EXCEPT !.bound = @ + 1, !.executed = @ + 1]
    /\ UNCHANGED Mout
    /\ UNCHANGED restOfDelayed

DelayedInit ==
    /\ Mout = EmptyVector
    /\ fresh = EmptyVector
    /\ delayed = NoDelayed
    /\ flagobjs = NoFlags
    /\ count = [built |-> 0, bound |-> 0, executed |-> 0]

DelayedNext ==
    \/ TransposeView
    \/ DelayedVxm
    \/ ComplementMask
    \/ BindSetItem
    \/ New

(***************************************************************************)
(* Specifications: one per program, the others at rest.                    *)
(***************************************************************************)
OpRest ==
    /\ out = EmptyVector
    /\ pending = NoPending
    /\ call = NoCall
    /\ phase = "rest"

SsspRest ==
    /\ m = EmptyVector
    /\ v = EmptyVector
    /\ w = EmptyVector
    /\ w_old = EmptyVector
    /\ pc = "rest"

BfsRest ==
    /\ A = EmptyVector
    /\ s = 0
    /\ parents = EmptyVector
    /\ wavefront = EmptyVector
    /\ bpc = "rest"

IdentRest ==
    /\ iv = EmptyVector
    /\ isr = MIN_PLUS
    /\ idiag = "zero"
    /\ ires = EmptyVector
    /\ ipc = "rest"

DelayedRest ==
    /\ Mout = EmptyVector
    /\ fresh = EmptyVector
    /\ delayed = NoDelayed
    /\ flagobjs = NoFlags
    /\ count = [built |-> 0, bound |-> 0, executed |-> 0]

Init == OpInit /\ SsspRest /\ BfsRest /\ IdentRest /\ DelayedRest
Next == OpNext
Spec == Init /\ [][Next]_vars

InitSssp == SsspInit /\ OpRest /\ BfsRest /\ IdentRest /\ DelayedRest
NextSssp == SsspNext
SpecSssp == InitSssp /\ [][NextSssp]_vars
\* the notebook runs its cells to the end
FairSssp == SpecSssp /\ WF_vars(NextSssp)

InitBfs == BfsInit /\ OpRest /\ SsspRest /\ IdentRest /\ DelayedRest
NextBfs == BfsNext
SpecBfs == InitBfs /\ [][NextBfs]_vars
FairBfs == SpecBfs /\ WF_vars(NextBfs)

InitIdent == IdentInit /\ OpRest /\ SsspRest /\ BfsRest /\ DelayedRest
NextIdent == IdentNext
SpecIdent == InitIdent /\ [][NextIdent]_vars

InitDelayed == DelayedInit /\ OpRest /\ SsspRest /\ BfsRest /\ IdentRest
NextDelayed == DelayedNext
SpecDelayed == InitDelayed /\ [][NextDelayed]_vars

(***************************************************************************)
(* Claims about the generic operation calls (specification Spec).          *)
(***************************************************************************)
\* the last statement was an assignment M[key] = delayed that succeeded
Executed == phase = "done" /\ call.kind = "setitem" /\ call.err = "none"

\* position p is masked out by the key of the last call
MaskedOut(p) ==
    /\ HasMask(call.key.mask)
    /\ LET M == call.key.mask[1]
           set == p \in DOMAIN M /\ (call.key.structure \/ M[p] # 0)
       IN  IF call.key.comp THEN set ELSE ~set

\* vectors x and y agree at position p: both absent, or the same value
SameAt(p, x, y) ==
    /\ p \in DOMAIN x <=> p \in DOMAIN y
    /\ p \in DOMAIN x => x[p] = y[p]

\* C1: at a masked-out position the result is absent under replace and the
\* old output value (or still absent) otherwise, whatever was computed and
\* whatever the accumulator
C1_MaskedOutFrame ==
    Executed =>
        \A p \in Range(OpSize) :
            MaskedOut(p) =>
                IF call.key.replace THEN p \notin DOMAIN out
                ELSE SameAt(p, out, call.pre)

\* a complemented mask masks out a position holding o = 2 with t = 1
\* computed, under replace and with an accumulator: the entry is cleared;
C1_Witness ==
    /\ Executed
    /\ call.key.comp /\ call.key.replace /\ call.key.accum = "MIN"
    /\ \E p \in Range(OpSize) :
        /\ MaskedOut(p)
        /\ p \in DOMAIN call.pre /\ call.pre[p] = 2
        /\ p \in DOMAIN call.T /\ call.T[p] = 1
        /\ p \notin DOMAIN out

\* C2: at a written position with a computed t the result is t without an
\* accumulator, accumulator(o, t) with an accumulator and an old value o,
\* and t with an accumulator and no old value
C2_WrittenValue ==
    Executed =>
        \A p \in Range(OpSize) :
            (~MaskedOut(p) /\ p \in DOMAIN call.T) =>
                /\ p \in DOMAIN out
                /\ out[p] = IF call.key.accum = "NONE" \/ p \notin DOMAIN call.pre
                            THEN call.T[p]
                            ELSE IF call.key.accum = "MIN"
                            THEN (IF call.pre[p] <= call.T[p]
                                  THEN call.pre[p] ELSE call.T[p])
                            ELSE call.pre[p] + call.T[p]

\* o = 2, t = 1, accumulator MIN at a position the mask lets through: 1
C2_Witness ==
    /\ Executed
    /\ HasMask(call.key.mask) /\ call.key.accum = "MIN"
    /\ \E p \in Range(OpSize) :
        /\ ~MaskedOut(p)
        /\ p \in DOMAIN call.pre /\ call.pre[p] = 2
        /\ p \in DOMAIN call.T /\ call.T[p] = 1
        /\ p \in DOMAIN out /\ out[p] = 1

\* C3 as stated: at a written position with nothing computed and replace
\* not set, the old output value stays, with or without an accumulator
C3_Original ==
    Executed =>
        \A p \in Range(OpSize) :
            (~MaskedOut(p) /\ p \notin DOMAIN call.T /\ ~call.key.replace) =>
                SameAt(p, out, call.pre)

\* C3 amended: at a written position with nothing computed and replace not
\* set, the old output value stays when an accumulator is given, and the
\* entry is removed when no accumulator is given
C3_KeptOnlyWithAccum ==
    Executed =>
        \A p \in Range(OpSize) :
            (~MaskedOut(p) /\ p \notin DOMAIN call.T /\ ~call.key.replace) =>
                IF call.key.accum = "NONE" THEN p \notin DOMAIN out
                ELSE SameAt(p, out, call.pre)

\* both halves in one call each: an old entry removed without an
\* accumulator (no mask, no replace, nothing computed)
C3_Witness ==
    /\ Executed
    /\ ~HasMask(call.key.mask) /\ ~call.key.replace /\ call.key.accum = "NONE"
    /\ \E p \in Range(OpSize) :
        /\ p \in DOMAIN call.pre /\ p \notin DOMAIN call.T
        /\ p \notin DOMAIN out

\* C9: in structural mode the result is the same for every mask with the
\* same stored positions, whatever values the mask stores
C9_StructureOnly ==
    (Executed /\ HasMask(call.key.mask) /\ call.key.structure) =>
        \A M2 \in Vectors(OpSize, {0, 1}) :
            DOMAIN M2 = DOMAIN call.key.mask[1] =>
                SetItemResult(call.pre, [call.key EXCEPT !.mask = <<M2>>],
                              call.T, OpSize) = out

\* a structural mask storing 0 at a position lets the computed value
\* through there, replacing a different old value
C9_Witness ==
    /\ Executed
    /\ HasMask(call.key.mask) /\ call.key.structure /\ ~call.key.comp
    /\ call.key.accum = "NONE"
    /\ \E p \in Range(OpSize) :
        /\ p \in DOMAIN call.key.mask[1] /\ call.key.mask[1][p] = 0
        /\ p \in DOMAIN call.T /\ p \in DOMAIN call.pre
        /\ call.T[p] # call.pre[p]
        /\ out[p] = call.T[p]

\* C10: a call that fails leaves the output with the entries, values and
\* shape it had before the call
C10_FailedCallWritesNothing ==
    /\ DOMAIN out \subseteq Range(OpSize)
    /\ (phase = "done" /\ call.err # "none") => out = call.pre

\* a bulk build with a repeated index failed on a non-empty vector
C10_Witness ==
    /\ phase = "done"
    /\ call.kind = "build"
    /\ call.err = "DuplicateIndexError"
    /\ call.pre # EmptyVector
    /\ out = call.pre

(***************************************************************************)
(* Claims about the SSSP notebook (SpecSssp, FairSssp).                    *)
(***************************************************************************)
\* C4: without an accumulator the first step loses the distance 0 of
\* vertex 1 (w holds only the entries of vertices 4 and 6); with
\* accumulator MIN the same step keeps w[1] = 0 beside them
C4_SeedLostOrKept ==
    /\ pc = "L168" => w = (4 :> 8 @@ 6 :> 4)
    /\ pc = "L187" => w = (1 :> 0 @@ 4 :> 8 @@ 6 :> 4)

C4_Witness ==
    /\ pc = "L187"
    /\ DOMAIN w = {1, 4, 6}
    /\ w[1] = 0

\* the edges of the claim: <<from, to, weight>>
ClaimEdges ==
    {<<3, 0, 3>>, <<0, 1, 2>>, <<3, 2, 3>>, <<5, 2, 1>>, <<6, 2, 5>>,
     <<0, 3, 3>>, <<6, 3, 7>>, <<1, 4, 8>>, <<6, 4, 3>>, <<2, 5, 1>>,
     <<4, 5, 7>>, <<1, 6, 4>>}

ClaimVertices == {e[1] : e \in ClaimEdges} \cup {e[2] : e \in ClaimEdges}

\* reference Bellman-Ford: k rounds of relaxing every edge
RECURSIVE BellmanFord(_, _)
BellmanFord(d, k) ==
    IF k = 0 THEN d
    ELSE BellmanFord(
            [j \in DOMAIN d |->
                SetMin({d[j]} \cup
                       {IF d[e[1]] = Inf THEN Inf ELSE d[e[1]] + e[3] :
                            e \in {x \in ClaimEdges : x[2] = j}})],
            k - 1)

RefDistance ==
    BellmanFord([j \in ClaimVertices |-> IF j = 1 THEN 0 ELSE Inf],
                Cardinality(ClaimVertices) - 1)

\* C5: the loop without accumulator on the matrix with the zero diagonal
\* terminates, and then v holds exactly the shortest-path distance of every
\* vertex reachable from vertex 1 and no entry for any other vertex
C5_SsspConverges ==
    /\ <>(pc = "done")
    /\ [](pc = "done" =>
            /\ \A i \in ClaimVertices : <<i, i>> \in DOMAIN m /\ m[<<i, i>>] = 0
            /\ DOMAIN v = {j \in ClaimVertices : RefDistance[j] # Inf}
            /\ \A j \in DOMAIN v : v[j] = RefDistance[j])

C5_Witness ==
    /\ pc = "done"
    /\ v = (0 :> 14 @@ 1 :> 0 @@ 2 :> 9 @@ 3 :> 11 @@ 4 :> 7 @@ 5 :> 10 @@ 6 :> 4)

\* C12: the loop of lines 215-219 runs on the 12-edge matrix without
\* diagonal entries and starts from w = {1: 0}; every iteration keeps
\* w[1] = 0 and never removes or increases a stored distance; the loop ends,
\* with w = w_old, and what it leaves in w_old is the vector v the loop of
\* lines 330-334 ends with on the matrix with the zero diagonal
C12_AccumLoopSameAsDiagonalLoop ==
    /\ [][pc = "L215" => w' = (1 :> 0)]_vars
    /\ [](pc \in {"L217", "L218", "L219"}
            => /\ Cardinality(DOMAIN m) = 12
               /\ \A i \in Range(nrows(m)) : <<i, i>> \notin DOMAIN m
               /\ 1 \in DOMAIN w
               /\ w[1] = 0)
    /\ [][pc = "L218"
            => \A p \in DOMAIN w : p \in DOMAIN w' /\ w'[p] <= w[p]]_vars
    /\ (pc = "L217") ~> (pc = "L255")
    /\ [](pc = "L255" => w = w_old)
    /\ [][pc \notin {"L217"} => w_old' = w_old]_vars
    /\ [](pc = "done"
            => \A i \in Range(nrows(m)) : <<i, i>> \in DOMAIN m /\ m[<<i, i>>] = 0)
    /\ [](pc = "done" => v = w_old)

\* both loops have ended on the same seven distances, the seed's included
C12_Witness ==
    /\ pc = "done"
    /\ v = w_old
    /\ DOMAIN w_old = Range(nrows(m))
    /\ w_old[1] = 0
    /\ w_old[0] = 14

\* C8: v[:] = v.vxm(m_ident, MIN_PLUS) leaves every v as it is: the same
\* stored indices with the same values, no entry created
C8_IdentPreserves ==
    [][(pc \in {"L265", "L278"}) => (v' = v)]_vars

\* the notebook's second try: v = [14, 0, _, _, 77, _, _] after the step
C8_Witness ==
    /\ pc = "L295"
    /\ DOMAIN m = DOMAIN NotebookM
    /\ v = (0 :> 14 @@ 1 :> 0 @@ 4 :> 77)

(***************************************************************************)
(* Claims about the parent BFS notebook (FairBfs).                         *)
(***************************************************************************)
\* the vertices within k hops of src
RECURSIVE Within(_, _, _)
Within(G, src, k) ==
    IF k = 0 THEN {src}
    ELSE LET W == Within(G, src, k - 1)
         IN  W \cup {e[2] : e \in {x \in DOMAIN G : x[1] \in W}}

Hop(G, src, j) == SetMin({k \in 0 .. N : j \in Within(G, src, k)})

\* C6: the parent BFS terminates with an empty wavefront, the source its
\* own parent, every reachable vertex with a parent one hop closer to the
\* source along an edge, and no entry for an unreachable vertex
C6_ParentTree ==
    /\ <>(bpc = "done")
    /\ [](bpc = "done" =>
            /\ wavefront = EmptyVector
            /\ s \in DOMAIN parents /\ parents[s] = s
            /\ DOMAIN parents = Within(A, s, N)
            /\ \A j \in DOMAIN parents \ {s} :
                /\ <<parents[j], j>> \in DOMAIN A
                /\ parents[j] \in Within(A, s, N)
                /\ Hop(A, s, parents[j]) + 1 = Hop(A, s, j))

\* the notebook's run: its graph, source 1
C6_Witness ==
    /\ bpc = "done"
    /\ A = NotebookA /\ s = 1
    /\ parents = (0 :> 3 @@ 1 :> 1 @@ 2 :> 6 @@ 3 :> 6 @@ 4 :> 1 @@ 5 :> 4 @@ 6 :> 1)

C7_Original ==
    (ipc = "done" /\ idiag = "add") => ires = iv

\* C7 amended: v.vxm(D, S) = v when the diagonal stores a right identity
\* of the multiply operator: 0 for PLUS, any value (e included) for FIRST
C7_RightIdentityOnDiagonal ==
    (ipc = "done" /\ (idiag = "zero" \/ isr.mul = "FIRST")) => ires = iv

\* MIN_PLUS with 0 on the diagonal gives back a vector with one stored
\* value and one absent position
C7_Witness ==
    /\ ipc = "done"
    /\ isr = MIN_PLUS /\ idiag = "zero"
    /\ iv = (0 :> 5)
    /\ ires = iv

(***************************************************************************)
(* Delayed objects.                                                        *)
(***************************************************************************)
Containers == <<Mout, fresh>>

====
